---- MODULE Spec2Model ----
(***************************************************************************)
(* PsFS (src/psfs.py): a FUSE file system that shows the process table as  *)
(* a tree of directories name(pid), each holding eight attribute files and *)
(* one directory per child process.  The process table is read through     *)
(* procpy (src/procpy.py) on every call; psfs keeps no state of its own.   *)
(*                                                                         *)
(* Strings are sequences of one-character strings, so that the regular     *)
(* expression of getPid, str(), int(), split('/') and the % formats are    *)
(* modelled by what they do to the characters.                             *)
(***************************************************************************)
EXTENDS Integers, Sequences, FiniteSets, TLC

VARIABLES procs, call, result, killed

vars == <<procs, call, result, killed>>

(* ------------------------------ bounds --------------------------------- *)

\* Process identifiers of the table are 1..MaxPid.
MaxPid == 3

\* makeProcName/getPid are exercised on identifiers 1..MaxCodecId and on
\* names of 1..MaxNameLen characters.
MaxCodecId == 12
MaxNameLen == 2

(* --------------------------- program constants ------------------------- *)

ENOENT == 2
EINVAL == 22
S_IFDIR == 16384
S_IFREG == 32768
\* 0555 and 0444 (octal)
Perm0555 == 365
Perm0444 == 292

(* ------------------------------ characters ----------------------------- *)

Digits == <<"0", "1", "2", "3", "4", "5", "6", "7", "8", "9">>

IsDigit(c) == \E d \in 1..10 : Digits[d] = c

DigitVal(c) == (CHOOSE d \in 1..10 : Digits[d] = c) - 1

Letters ==
  {"a","b","c","d","e","f","g","h","i","j","k","l","m","n","o","p","q","r",
   "s","t","u","v","w","x","y","z",
   "A","B","C","D","E","F","G","H","I","J","K","L","M","N","O","P","Q","R",
   "S","T","U","V","W","X","Y","Z"}

\* \w of a Python 2 byte-string pattern: [a-zA-Z0-9_]
IsWord(c) == c \in Letters \/ IsDigit(c) \/ c = "_"

\* int(digits)
RECURSIVE ParseInt(_)
ParseInt(s) ==
  IF s = <<>> THEN 0
  ELSE 10 * ParseInt(SubSeq(s, 1, Len(s) - 1)) + DigitVal(s[Len(s)])

\* str(n) for n >= 0
RECURSIVE IntToStr(_)
IntToStr(n) ==
  IF n < 10 THEN <<Digits[n + 1]>>
  ELSE IntToStr(n \div 10) \o <<Digits[(n % 10) + 1]>>

\* the "%0wd" / "%wd" conversions: pad on the left up to width w
RECURSIVE PadLeft(_, _, _)
PadLeft(s, w, c) == IF Len(s) >= w THEN s ELSE PadLeft(<<c>> \o s, w, c)

\* ' '.join(args)
RECURSIVE JoinWith(_, _)
JoinWith(args, sep) ==
  IF args = <<>> THEN <<>>
  ELSE IF Len(args) = 1 THEN args[1]
  ELSE args[1] \o sep \o JoinWith(Tail(args), sep)

\* path.split('/')
RECURSIVE split(_)
split(s) ==
  IF \A i \in 1..Len(s) : s[i] # "/" THEN <<s>>
  ELSE LET i == CHOOSE k \in 1..Len(s) :
                  s[k] = "/" /\ \A m \in 1..(k - 1) : s[m] # "/"
       IN  <<SubSeq(s, 1, i - 1)>> \o split(SubSeq(s, i + 1, Len(s)))

\* elem[-1], elem[-2]
Last(elem) == elem[Len(elem)]
Last2(elem) == elem[Len(elem) - 1]

(* ------------------------------ PsFS ----------------------------------- *)

infoFiles ==
  << <<"U","S","E","R">>, <<"P","I","D">>, <<"C","P","U">>, <<"M","E","M">>,
     <<"T","T","Y">>, <<"S","T","A","R","T">>, <<"T","I","M","E">>,
     <<"C","O","M","M","A","N","D">> >>

IsInfoFile(seg) == \E k \in 1..Len(infoFiles) : infoFiles[k] = seg

\* re.search('\w+\((?P<num>\d+)\)', procName): the leftmost '(' that follows
\* a word character and is followed by one or more digits and ')'.
MatchAt(s, j) ==
  /\ j >= 2
  /\ s[j] = "("
  /\ IsWord(s[j - 1])
  /\ \E k \in (j + 2)..Len(s) :
        /\ s[k] = ")"
        /\ \A m \in (j + 1)..(k - 1) : IsDigit(s[m])

getPid(procName) ==
  LET js == {j \in 1..Len(procName) : MatchAt(procName, j)} IN
  IF js = {} THEN 0
  ELSE LET j == CHOOSE x \in js : \A y \in js : x <= y
           k == CHOOSE x \in (j + 2)..Len(procName) :
                   /\ procName[x] = ")"
                   /\ \A m \in (j + 1)..(x - 1) : IsDigit(procName[m])
       IN  ParseInt(SubSeq(procName, j + 1, k - 1))

makeProcName(procName, pid) == procName \o <<"(">> \o IntToStr(pid) \o <<")">>

(* --------------------------- the process table ------------------------- *)

\* procs is the table procpy reads: a function from the live pids to the
\* record readproc_by_pid returns for each.
Live(pid) == pid \in DOMAIN procs

\* procpy.readproc_by_pid(pid): the record, or procpy.error "PID not found."
getProcessInfo(pid) ==
  IF Live(pid) THEN [ok |-> TRUE, info |-> procs[pid]]
  ELSE [ok |-> FALSE, exc |-> "procpy.error"]

\* procpy.readproc(): every record of the table, in pid order
RECURSIVE readprocFrom(_)
readprocFrom(pid) ==
  IF pid > MaxPid THEN <<>>
  ELSE (IF Live(pid) THEN <<procs[pid]>> ELSE <<>>) \o readprocFrom(pid + 1)

readproc == readprocFrom(1)

getChildProcessInfo(pid) ==
  SelectSeq(readproc, LAMBDA proc : proc.ppid = pid)

(* ------------------------------ results -------------------------------- *)

RetInt(v) == [tag |-> "int", v |-> v]
RetStr(s) == [tag |-> "str", s |-> s]
RetRaise(e) == [tag |-> "raise", exc |-> e]
RetStat(mode, ino, nlink, size) ==
  [tag |-> "stat", st_mode |-> mode, st_ino |-> ino, st_nlink |-> nlink,
   st_size |-> size]
RetDir(entries) == [tag |-> "dir", entries |-> entries]
RetCodec(seg, pid) == [tag |-> "codec", seg |-> seg, pid |-> pid]
RetNone == [tag |-> "none"]

\* fuse.Direntry(name), with its type
Direntry(name, type) == [name |-> name, type |-> type]

(* ---------------------------- the operations --------------------------- *)

\* isExist without the comparison of the parent identifiers
isExistNoEdge(parent, child) ==
  LET ppid == getPid(parent)
      pid == getPid(child)
  IN  IF ppid = 0 \/ pid = 0 THEN "False"
      ELSE IF ~getProcessInfo(pid).ok THEN "raise"
      ELSE "True"

\* "True"/"False" as returned; "raise" when readproc_by_pid raised.
isExist(parent, child) ==
  LET ppid == getPid(parent)
      pid == getPid(child)
  IN  IF ppid = 0 \/ pid = 0 THEN "False"
      ELSE IF ~getProcessInfo(pid).ok THEN "raise"
      ELSE IF getProcessInfo(pid).info.ppid # ppid THEN "False"
      ELSE "True"

getFileInfoText(proc, info) ==
  IF info = infoFiles[2] THEN IntToStr(proc.tid)
  ELSE IF info = infoFiles[1] THEN proc.ruser
  ELSE IF info = infoFiles[3] THEN proc.pcpustr
  ELSE IF info = infoFiles[4] THEN proc.pmemstr
  ELSE IF info = infoFiles[5] THEN proc.ttynam
  ELSE IF info = infoFiles[6]
    THEN PadLeft(IntToStr(proc.start[4]), 2, "0") \o <<":">>
           \o PadLeft(IntToStr(proc.start[5]), 2, "0")
  ELSE IF info = infoFiles[7]
    THEN PadLeft(IntToStr(proc.time[1]), 4, " ") \o <<":">>
           \o PadLeft(IntToStr(proc.time[2]), 2, "0")
  ELSE IF info = infoFiles[8] THEN JoinWith(proc.cmdline, <<" ">>)
  ELSE <<>>

getFileInfo(pid, info) ==
  LET r == getProcessInfo(pid) IN
  IF r.ok THEN [ok |-> TRUE, text |-> getFileInfoText(r.info, info)]
  ELSE [ok |-> FALSE, exc |-> r.exc]

InitSeg == <<"i","n","i","t","(","1",")">>
RootPath == <<"/">>
InitPath == <<"/">> \o InitSeg

readdir(path, offset) ==
  LET dots == <<Direntry(<<".">>, 0), Direntry(<<".", ".">>, 0)>> IN
  IF path = RootPath
  THEN RetDir(dots \o <<Direntry(InitSeg, S_IFDIR)>>)
  ELSE LET files == [k \in 1..Len(infoFiles) |->
                        Direntry(infoFiles[k], S_IFREG + Perm0444)]
           elem == split(path)
           pid == getPid(Last(elem))
           results == getChildProcessInfo(pid)
           children == [k \in 1..Len(results) |->
                          Direntry(makeProcName(results[k].cmd, results[k].tid),
                                   S_IFDIR)]
       IN  RetDir(dots \o files \o children)

getattr(path) ==
  LET elem == split(path) IN
  IF IsInfoFile(Last(elem))
  THEN LET pid == getPid(Last2(elem))
           text == getFileInfo(pid, Last(elem))
       IN  IF text.ok
           THEN RetStat(S_IFREG + Perm0444, 0, 0, Len(text.text) + 1)
           ELSE RetRaise(text.exc)
  ELSE IF path = RootPath THEN RetStat(S_IFDIR + Perm0555, 0, 2, 0)
  ELSE IF path = InitPath THEN RetStat(S_IFDIR + Perm0555, 1, 2, 0)
  ELSE LET e == isExist(Last2(elem), Last(elem)) IN
       IF e = "raise" THEN RetRaise("procpy.error")
       ELSE IF e = "True" THEN RetStat(S_IFDIR + Perm0555, 0, 1, 0)
       ELSE RetInt(-ENOENT)

open(path, flags) ==
  IF path = RootPath THEN RetInt(-ENOENT)
  ELSE IF IsInfoFile(Last(split(path))) THEN RetInt(0)
  ELSE RetInt(-ENOENT)

read(path, size, offset) ==
  IF path = RootPath THEN RetInt(-ENOENT)
  ELSE LET elem == split(path) IN
       IF IsInfoFile(Last(elem))
       THEN LET pid == getPid(Last2(elem)) IN
            IF pid = 0 THEN RetInt(-ENOENT)
            ELSE LET text == getFileInfo(pid, Last(elem)) IN
                 IF text.ok THEN RetStr(text.text \o <<"\n">>)
                 ELSE RetRaise(text.exc)
       ELSE RetInt(-ENOENT)

\* rmdir that kills only what isExist accepts
rmdirChecked(path) ==
  LET elem == split(path) IN
  IF Last(elem) = InitSeg THEN [ret |-> RetInt(-EINVAL), kill |-> <<>>]
  ELSE LET pid == getPid(Last(elem)) IN
       IF pid = 0 THEN [ret |-> RetInt(-EINVAL), kill |-> <<>>]
       ELSE IF isExist(Last2(elem), Last(elem)) # "True"
         THEN [ret |-> RetInt(-ENOENT), kill |-> <<>>]
       ELSE [ret |-> RetInt(0), kill |-> <<pid>>]

\* ret: the value returned; kill: the pids "kill -9" was run for, in order
rmdir(path) ==
  LET elem == split(path) IN
  IF Last(elem) = InitSeg THEN [ret |-> RetInt(-EINVAL), kill |-> <<>>]
  ELSE LET pid == getPid(Last(elem)) IN
       IF pid = 0 THEN [ret |-> RetInt(-EINVAL), kill |-> <<>>]
       ELSE [ret |-> RetInt(0), kill |-> <<pid>>]

(* ------------------------------ inputs --------------------------------- *)

\* Command names the table may hold: "sh" and "g++".
CmdNames == { <<"s","h">>, <<"g","+","+">> }

SystemdSeg == <<"s","y","s","t","e","m","d","(","1",")">>
BogusSeg == <<"b","o","g","u","s">>
ZeroSeg == <<"x","(","0",")">>

\* Directory segments given to the operations: every name(pid) of a command
\* name and a pid of the table, and segments naming pid 1, pid 0 and no pid.
ProcSegs ==
  {makeProcName(n, i) : n \in CmdNames, i \in 2..MaxPid}
    \cup {InitSeg, SystemdSeg, ZeroSeg, BogusSeg}

LastSegs == ProcSegs \cup {infoFiles[k] : k \in 1..Len(infoFiles)}

PathOf(segs) == <<"/">> \o JoinWith(segs, <<"/">>)

\* Paths as the FUSE layer passes them: "/" or "/seg/.../seg".
Paths ==
  {RootPath}
    \cup {PathOf(<<l>>) : l \in LastSegs}
    \cup {PathOf(pre \o <<a, l>>) :
            pre \in {<<>>, <<InitSeg>>, <<BogusSeg>>},
            a \in ProcSegs, l \in LastSegs}

\* size and offset arguments of read
Sizes == {1, 64}
Offsets == {0, 1}

\* Names for the codec: non-empty, without '(', ')' and '/'.
NameChars == {"a", "7", "_", "+"}
CodecNames ==
  UNION {[1..n -> NameChars] : n \in 1..MaxNameLen}

(* -------------------------- the process table -------------------------- *)

\* The record readproc gives for a process; the fields psfs reads.
ProcRecord(pid, ppid, cmd) ==
  [tid |-> pid, ppid |-> ppid, cmd |-> cmd,
   ruser |-> <<"r","o","o","t">>,
   pcpustr |-> <<"0",".","0">>, pmemstr |-> <<"0",".","1">>,
   ttynam |-> <<"?">>,
   start |-> <<2008, 1, 1, 9, pid, 0, 0, 0, 0>>,
   time |-> <<pid, 7>>,
   cmdline |-> <<cmd, <<"-","x">>>>]

NoCall == [op |-> "none"]

Init ==
  /\ procs = (1 :> ProcRecord(1, 0, <<"i","n","i","t">>))
  /\ call = NoCall
  /\ result = RetNone
  /\ killed = <<>>

\* A process starts ("we execute new bash process"): a child of a live
\* process, or a kernel thread with parent 0.
Spawn ==
  /\ call = NoCall
  /\ \E pid \in (2..MaxPid) \ DOMAIN procs, ppid \in {0} \cup DOMAIN procs,
        cmd \in CmdNames :
       /\ procs' = (pid :> ProcRecord(pid, ppid, cmd)) @@ procs
       /\ call' = NoCall
       /\ result' = RetNone
       /\ killed' = <<>>

\* A process ends ("we close this bash process"), by itself or by a signal;
\* its children become children of pid 1.
Exit ==
  /\ call = NoCall
  /\ \E pid \in DOMAIN procs \ {1} :
       /\ procs' = [q \in DOMAIN procs \ {pid} |->
                      IF procs[q].ppid = pid
                      THEN [procs[q] EXCEPT !.ppid = 1] ELSE procs[q]]
       /\ call' = NoCall
       /\ result' = RetNone
       /\ killed' = <<>>

(* ------------------------- the file system calls ----------------------- *)

Readdir ==
  /\ call = NoCall
  /\ \E path \in Paths :
       /\ call' = [op |-> "readdir", path |-> path]
       /\ result' = readdir(path, 0)
       /\ killed' = <<>>
       /\ UNCHANGED procs

Getattr ==
  /\ call = NoCall
  /\ \E path \in Paths :
       /\ call' = [op |-> "getattr", path |-> path]
       /\ result' = getattr(path)
       /\ killed' = <<>>
       /\ UNCHANGED procs

Open ==
  /\ call = NoCall
  /\ \E path \in Paths :
       /\ call' = [op |-> "open", path |-> path]
       /\ result' = open(path, 0)
       /\ killed' = <<>>
       /\ UNCHANGED procs

Read ==
  /\ call = NoCall
  /\ \E path \in Paths, size \in Sizes, offset \in Offsets :
       /\ call' = [op |-> "read", path |-> path, size |-> size,
                   offset |-> offset]
       /\ result' = read(path, size, offset)
       /\ killed' = <<>>
       /\ UNCHANGED procs

Rmdir ==
  /\ call = NoCall
  /\ \E path \in Paths :
       /\ call' = [op |-> "rmdir", path |-> path]
       /\ result' = rmdir(path).ret
       /\ killed' = rmdir(path).kill
       /\ UNCHANGED procs

\* makeProcName followed by getPid
Codec ==
  /\ call = NoCall
  /\ \E name \in CodecNames, pid \in 1..MaxCodecId :
       /\ call' = [op |-> "codec", name |-> name, pid |-> pid]
       /\ result' = RetCodec(makeProcName(name, pid),
                             getPid(makeProcName(name, pid)))
       /\ killed' = <<>>
       /\ UNCHANGED procs

\* The call returns to the FUSE main loop, which runs one call at a time
\* (fs.multithreaded = 0).
Return ==
  /\ call # NoCall
  /\ call' = NoCall
  /\ result' = RetNone
  /\ killed' = <<>>
  /\ UNCHANGED procs

Next ==
  \/ Spawn
  \/ Exit
  \/ Readdir
  \/ Getattr
  \/ Open
  \/ Read
  \/ Rmdir
  \/ Codec
  \/ Return

Spec == Init /\ [][Next]_vars

(* ------------------------- vocabulary of the claims -------------------- *)

CallElem == split(call.path)

IsErrno(r, e) == r.tag = "int" /\ r.v = -e
IsSuccess(r) == r.tag = "int" /\ r.v = 0
IsDirStat(r) == r.tag = "stat" /\ r.st_mode = S_IFDIR + Perm0555
IsFileStat(r) == r.tag = "stat" /\ r.st_mode = S_IFREG + Perm0444

\* The segment has the form name(digits): the pattern of getPid matches.
HasPidGroup(seg) == \E j \in 1..Len(seg) : MatchAt(seg, j)

\* ProcessDirectory existence as the specification defines it, for the
\* directory whose split path is elem: the final segment decodes to a live
\* process that is the root process, or whose parent identifier is the one
\* the parent segment decodes to.
ProcDirExists(elem) ==
  /\ Len(elem) >= 2
  /\ LET p == getPid(Last(elem))
         q == getPid(Last2(elem))
     IN  /\ p >= 1
         /\ Live(p)
         /\ \/ p = 1
            \/ (q >= 1 /\ procs[p].ppid = q)

\* The path resolves to AttributeFile(pid, kind).
AttrFileResolves(path) ==
  LET elem == split(path) IN
  /\ Len(elem) >= 3
  /\ IsInfoFile(Last(elem))
  /\ ProcDirExists(SubSeq(elem, 1, Len(elem) - 1))

\* bytes [offset, offset + size) of s
Slice(s, offset, size) ==
  SubSeq(s, offset + 1, IF offset + size < Len(s) THEN offset + size ELSE Len(s))

JoinPath(dir, name) ==
  IF dir = RootPath THEN dir \o name ELSE dir \o <<"/">> \o name

(* -------------------------------- claims ------------------------------- *)

\* C1: rmdir on a path whose final segment decodes to identifier 1 returns
\* EINVAL and issues no termination request, whatever the name before "(1)".
C1_RootRemovalRejected ==
  (call.op = "rmdir" /\ getPid(Last(CallElem)) = 1)
    => (IsErrno(result, EINVAL) /\ killed = <<>>)

\* C2: rmdir on a path whose final segment decodes to p > 1 returns 0 and
\* issues exactly one termination request, to p, whether or not p is live
\* or a child of the claimed parent; when the final segment does not decode
\* it returns EINVAL and issues none.
C2_RmdirKillsDecodedPid ==
  call.op = "rmdir" =>
    LET p == getPid(Last(CallElem)) IN
    /\ p > 1 => (IsSuccess(result) /\ killed = <<p>>)
    /\ p = 0 => (IsErrno(result, EINVAL) /\ killed = <<>>)

\* C2 witness: rmdir has killed a live process through a path that names a
\* parent it does not have.
C2_Witness ==
  /\ call.op = "rmdir"
  /\ Len(CallElem) >= 3
  /\ LET p == getPid(Last(CallElem)) IN
       /\ p > 1
       /\ Live(p)
       /\ getPid(Last2(CallElem)) >= 1
       /\ procs[p].ppid # getPid(Last2(CallElem))
       /\ IsSuccess(result)
       /\ killed = <<p>>

\* C3: read on ".../name(pid)/KIND" returns ENOENT when the table holds no
\* record of pid.
C3_ReadOfDeadPidIsENOENT ==
  (/\ call.op = "read"
   /\ Len(CallElem) >= 3
   /\ IsInfoFile(Last(CallElem))
   /\ getPid(Last2(CallElem)) >= 1
   /\ ~Live(getPid(Last2(CallElem))))
    => IsErrno(result, ENOENT)

\* C4: read on ".../parent(q)/name(p)/KIND" returns ENOENT when p is live and
\* its parent is not q.
C4_ReadChecksAncestry ==
  (/\ call.op = "read"
   /\ Len(CallElem) >= 4
   /\ IsInfoFile(Last(CallElem))
   /\ getPid(Last2(CallElem)) >= 1
   /\ Live(getPid(Last2(CallElem)))
   /\ getPid(CallElem[Len(CallElem) - 2]) >= 1
   /\ procs[getPid(Last2(CallElem))].ppid # getPid(CallElem[Len(CallElem) - 2]))
    => IsErrno(result, ENOENT)

\* C5: readdir on a path whose final segment decodes to a live q yields ".",
\* "..", the eight attribute names and then exactly one directory entry per
\* process whose parent is q: each child p as an entry that decodes to p, and
\* no entry that decodes to a process whose parent is not q.
C5_ReaddirListsChildren ==
  (/\ call.op = "readdir"
   /\ getPid(Last(CallElem)) >= 1
   /\ Live(getPid(Last(CallElem))))
    => LET q == getPid(Last(CallElem))
           entries == result.entries
           rest == SubSeq(entries, 11, Len(entries))
           kids == {p \in DOMAIN procs : procs[p].ppid = q}
       IN  /\ result.tag = "dir"
           /\ Len(entries) >= 10
           /\ entries[1].name = <<".">>
           /\ entries[2].name = <<".", ".">>
           /\ \A k \in 1..8 : entries[k + 2].name = infoFiles[k]
           /\ Len(rest) = Cardinality(kids)
           /\ \A k \in 1..Len(rest) : rest[k].type = S_IFDIR
           /\ \A p \in kids :
                Cardinality({k \in 1..Len(rest) : getPid(rest[k].name) = p}) = 1
           /\ \A k \in 1..Len(rest) :
                LET d == getPid(rest[k].name) IN
                ~(Live(d) /\ procs[d].ppid # q)

\* C6: open succeeds exactly on the paths that resolve to an attribute file
\* and returns ENOENT on every other path.
C6_OpenIffAttributeFile ==
  call.op = "open" =>
    /\ IsSuccess(result) <=> AttrFileResolves(call.path)
    /\ ~IsSuccess(result) => IsErrno(result, ENOENT)

\* C7: read on a path that resolves to an attribute file returns the bytes
\* [offset, offset + size) of the rendered text followed by a newline.
C7_ReadReturnsRequestedRange ==
  (call.op = "read" /\ AttrFileResolves(call.path))
    => LET p == getPid(Last2(CallElem))
           data == getFileInfoText(procs[p], Last(CallElem)) \o <<"\n">>
       IN  /\ result.tag = "str"
           /\ result.s = Slice(data, call.offset, call.size)

\* C8: getPid(makeProcName(n, i)) = i for every valid name n and every i > 0.
C8_SegmentRoundTrip ==
  call.op = "codec" => result.pid = call.pid

C10_ListThenStat ==
  (call.op = "readdir" /\ IsDirStat(getattr(call.path)))
    => \A k \in 3..Len(result.entries) :
         LET e == result.entries[k]
             st == getattr(JoinPath(call.path, e.name))
         IN  /\ ~IsErrno(st, ENOENT)
             /\ e.type = S_IFDIR => IsDirStat(st)
             /\ e.type = S_IFREG + Perm0444 => IsFileStat(st)
====
